---- MODULE Spec2Model ----
(***************************************************************************)
(* Workflow orchestration core of castquest-code:                          *)
(*   FlowBuilder.validateFlow / optimizeFlow  (app/builders/flow-builder)  *)
(*   WorkflowBuilder.execute                  (app/builders/workflow-...)  *)
(*   AiCodeEngine.autoProcess                 (app/README.md listing)      *)
(*   AiCodeOrchestrator.orchestrate / watch   (app/orchestrator)           *)
(***************************************************************************)
EXTENDS Integers, Sequences, FiniteSets, TLC

VARIABLES
  flow,        \* FlowBuilder: the Flow handed to validateFlow / optimizeFlow (its steps)
  validation,  \* FlowBuilder: <<value returned by validateFlow>>, NoResult before the call
  optimized,   \* FlowBuilder: <<steps of the Flow returned by optimizeFlow>>, or NoResult
  declared,    \* the step declarations a caller hands to buildFlow / addStep
  engine,      \* which executor this run belongs to: "flow", "workflow" or "auto"
  wf,          \* the Workflow being executed: [steps, parallel]
  pc,          \* execute()/autoProcess(): "ready" (not called), "running", "returned"
  cur,         \* index of the step the sequential for-loop is at
  status,      \* per step: "pending", "skipped" (condition false), "running", "done"
  attempt,     \* per step: the loop variable `attempt` of executeStep
  invoked,     \* per step: how many times step.action() has been called
  results,     \* keys of the results Map
  errors,      \* the errors Map, as a set of <<step id, error>> entries
  success,     \* the success field of the returned result
  autoResults, \* autoProcess: the results array, [step, success] per executed step
  lastOutcome, \* per step: how its most recent attempt settled ("none" before the first)
  pure,        \* per step: the fixed outcomes of a pure condition, action and onSuccess;
               \* <<>> when the steps are opaque
  previous,    \* <<the WorkflowResult of the previous execute call>>, NoResult if none
  config,      \* AiCodeOrchestrator: this.config
  running,     \* AiCodeOrchestrator: this.running
  loop,        \* per watch() call: where its while-loop is
  run,         \* per caller of orchestrate(): the run in progress and its result
  exitCode     \* CLI: <<code given to process.exit>>, NoResult while the process lives

flowVars == <<flow, validation, optimized, declared>>
runVars == <<engine, wf, pc, cur, status, attempt, invoked, results, errors, success, autoResults,
             lastOutcome>>
rerunVars == <<pure, previous>>
orchVars == <<config, running, loop, run, exitCode>>
vars == <<flowVars, runVars, rerunVars, orchVars>>

NoResult == <<>>

\* ------------------------------------------------------------------ bounds
\* a flow has at most MaxSteps steps and at most MaxEdges dependency entries in all
MaxSteps == 3
MaxEdges == 3
\* a workflow has at most MaxWfSteps steps and declares at most MaxDeclared dependency
\* entries in all; a workflow with retries has at most MaxRetrySteps steps, each with at
\* most MaxRetries retries
MaxWfSteps == 3
MaxDeclared == 2
MaxRetrySteps == 2
MaxRetries == 2

\* ------------------------------------------------------------ flow inputs
Ids == {"a", "b", "c"}

Range(q) == {q[i] : i \in 1..Len(q)}

\* FlowStep: the fields the graph algorithms read (id, dependencies) and optional
FlowStep(id, deps) == [id |-> id, dependencies |-> deps, optional |-> FALSE]

RECURSIVE SumTo(_, _)
SumTo(lens, i) == IF i = 0 THEN 0 ELSE lens[i] + SumTo(lens, i - 1)

\* Flow.steps: FlowStep[]; step i has id ids[i] and the next lens[i] entries of targets as
\* its dependencies: string[]
MkSteps(ids, lens, targets) ==
  [i \in 1..Len(ids) |->
     FlowStep(ids[i], [j \in 1..lens[i] |-> targets[SumTo(lens, i - 1) + j]])]

\* flow.steps.find(s => s.id === stepId): index of the first match, 0 for undefined
Find(steps, stepId) ==
  IF \E i \in 1..Len(steps) : steps[i].id = stepId
  THEN CHOOSE i \in 1..Len(steps) :
         /\ steps[i].id = stepId
         /\ \A j \in 1..(i - 1) : steps[j].id # stepId
  ELSE 0

\* ---------------------------------------------------------- validateFlow
\* An error message is kept as the data the template string is built from:
\*   `Circular dependency detected: ${path.join(' -> ')} -> ${stepId}`
\*   `Step '${step.id}' has missing dependency: ${dep}`
\* variant of CircularError whose message stops at the path, without the revisited step
CircularErrorOpenPath(path, stepId) ==
  [kind |-> "circular", path |-> path, step |-> "", dep |-> ""]

CircularError(path, stepId) ==
  [kind |-> "circular", path |-> Append(path, stepId), step |-> "", dep |-> ""]

MissingError(stepId, dep) ==
  [kind |-> "missing", path |-> <<>>, step |-> stepId, dep |-> dep]

\* checkDependencies(stepId, path) acting on the closure state st = (visited, errors);
\* path is a Set in insertion order, copied for every dependency (new Set(path)).
RECURSIVE checkDependencies(_, _, _, _)
RECURSIVE checkEach(_, _, _, _, _)

\* variant of checkDependencies that takes every step seen before for a step on the path
checkDependenciesSeenIsCycle(steps, stepId, path, st) ==
  IF stepId \in Range(path) \/ stepId \in st.visited
  THEN [st EXCEPT !.errors = Append(@, CircularError(path, stepId))]
  ELSE LET st1 == [st EXCEPT !.visited = @ \cup {stepId}]
           path1 == Append(path, stepId)
           k == Find(steps, stepId)
       IN IF k = 0 THEN st1
          ELSE checkEach(steps, steps[k].dependencies, 1, path1, st1)

checkDependencies(steps, stepId, path, st) ==
  IF stepId \in Range(path)
  THEN [st EXCEPT !.errors = Append(@, CircularError(path, stepId))]
  ELSE IF stepId \in st.visited
  THEN st
  ELSE LET st1 == [st EXCEPT !.visited = @ \cup {stepId}]
           path1 == Append(path, stepId)
           k == Find(steps, stepId)
       IN IF k = 0 THEN st1
          ELSE checkEach(steps, steps[k].dependencies, 1, path1, st1)

\* step.dependencies.forEach(dep => checkDependencies(dep, new Set(path)))
checkEach(steps, deps, i, path, st) ==
  IF i > Len(deps) THEN st
  ELSE checkEach(steps, deps, i + 1, path, checkDependencies(steps, deps[i], path, st))

\* flow.steps.forEach(step => checkDependencies(step.id))
RECURSIVE checkAll(_, _, _)
checkAll(steps, i, st) ==
  IF i > Len(steps) THEN st
  ELSE checkAll(steps, i + 1, checkDependencies(steps, steps[i].id, <<>>, st))

RECURSIVE missingOf(_, _, _)

\* variant of missingOf that stops at the step's first missing dependency
missingOfFirstOnly(steps, s, j) ==
  IF j > Len(steps[s].dependencies) THEN <<>>
  ELSE LET dep == steps[s].dependencies[j]
       IN IF Find(steps, dep) = 0
          THEN <<MissingError(steps[s].id, dep)>>
          ELSE missingOf(steps, s, j + 1)

\* the missing-dependency messages of one step, in dependency order
missingOf(steps, s, j) ==
  IF j > Len(steps[s].dependencies) THEN <<>>
  ELSE LET dep == steps[s].dependencies[j]
           rest == missingOf(steps, s, j + 1)
       IN IF Find(steps, dep) = 0
          THEN <<MissingError(steps[s].id, dep)>> \o rest
          ELSE rest

\* the second forEach of validateFlow
RECURSIVE missingDependencies(_, _)
missingDependencies(steps, s) ==
  IF s > Len(steps) THEN <<>>
  ELSE missingOf(steps, s, 1) \o missingDependencies(steps, s + 1)

validateFlow(steps) ==
  LET cyc == checkAll(steps, 1, [visited |-> {}, errors |-> <<>>])
      errs == cyc.errors \o missingDependencies(steps, 1)
  IN [valid |-> Len(errs) = 0, errors |-> errs]

\* ---------------------------------------------------------- optimizeFlow
RECURSIVE visit(_, _, _)
RECURSIVE visitEach(_, _, _, _)

\* variant of visit that pushes the step before visiting its dependencies
visitPushFirst(steps, stepId, st) ==
  IF stepId \in st.visited THEN st
  ELSE LET st1 == [st EXCEPT !.visited = @ \cup {stepId}]
           k == Find(steps, stepId)
       IN IF k = 0 THEN st1
          ELSE visitEach(steps, steps[k].dependencies, 1,
                         [st1 EXCEPT !.sorted = Append(@, steps[k])])

\* visit(stepId) acting on the closure state st = (visited, sorted)
visit(steps, stepId, st) ==
  IF stepId \in st.visited THEN st
  ELSE LET st1 == [st EXCEPT !.visited = @ \cup {stepId}]
           k == Find(steps, stepId)
       IN IF k = 0 THEN st1
          ELSE LET st2 == visitEach(steps, steps[k].dependencies, 1, st1)
               IN [st2 EXCEPT !.sorted = Append(@, steps[k])]

\* step.dependencies.forEach(visit)
visitEach(steps, deps, i, st) ==
  IF i > Len(deps) THEN st
  ELSE visitEach(steps, deps, i + 1, visit(steps, deps[i], st))

RECURSIVE visitAll(_, _, _)
visitAll(steps, i, st) ==
  IF i > Len(steps) THEN st
  ELSE visitAll(steps, i + 1, visit(steps, steps[i].id, st))

optimizeFlow(steps) == visitAll(steps, 1, [visited |-> {}, sorted |-> <<>>]).sorted

\* ------------------------------------------------- FlowBuilder operations
\* no orchestrator: its fields stay as constructed, no orchestrate() or watch() call is made
NoOrch ==
  /\ config = <<>>
  /\ running = FALSE
  /\ loop = <<>>
  /\ run = <<>>
  /\ exitCode = NoResult

\* no workflow run: the run variables stay as constructed
NoRun ==
  /\ engine = "flow"
  /\ wf = [steps |-> <<>>, parallel |-> FALSE]
  /\ pc = "ready"
  /\ cur = 0
  /\ status = <<>>
  /\ attempt = <<>>
  /\ invoked = <<>>
  /\ results = {}
  /\ errors = {}
  /\ success = FALSE
  /\ autoResults = <<>>
  /\ lastOutcome = <<>>
  /\ pure = <<>>
  /\ previous = NoResult

\* buildFlow stores whatever ids and dependency lists it is given
FlowInit ==
  /\ \E n \in 0..MaxSteps :
       \E ids \in [1..n -> Ids], lens \in [1..n -> 0..MaxEdges] :
         /\ SumTo(lens, n) <= MaxEdges
         /\ \E targets \in [1..SumTo(lens, n) -> Ids] :
              flow = MkSteps(ids, lens, targets)
  /\ validation = NoResult
  /\ optimized = NoResult
  /\ declared = <<>>
  /\ NoRun
  /\ NoOrch

ValidateFlow ==
  /\ validation = NoResult
  /\ optimized = NoResult
  /\ validation' = <<validateFlow(flow)>>
  /\ UNCHANGED <<flow, optimized, declared, runVars, rerunVars, orchVars>>

OptimizeFlow ==
  /\ validation = NoResult
  /\ optimized = NoResult
  /\ optimized' = <<optimizeFlow(flow)>>
  /\ UNCHANGED <<flow, validation, declared, runVars, rerunVars, orchVars>>

FlowNext == ValidateFlow \/ OptimizeFlow

SpecFlow == FlowInit /\ [][FlowNext]_vars

\* ------------------------------------------------------- workflow inputs
\* step ids of a workflow, by position
WfIdAt(i) == <<"a", "b", "c", "d", "e">>[i]

WfIds == {WfIdAt(i) : i \in 1..MaxWfSteps}

\* WorkflowStep as the caller declares it.  The interface has id, action, condition,
\* onSuccess, onError, retries, timeout; `dependencies` (docs/builders/README.md,
\* Example 3) and `optional` are declared by callers and read by no line of the executor.
\* action, condition and the callbacks are opaque: their outcome is chosen when they run.
WorkflowStep(id, deps, optional, retries) ==
  [id |-> id, dependencies |-> deps, optional |-> optional, retries |-> retries]

\* the 'auto' flow of loadDefaultFlows, which buildAutoFlow copies
AutoFlowSteps ==
  << WorkflowStep("sync", <<>>, FALSE, 0),
     WorkflowStep("analyze", <<"sync">>, FALSE, 0),
     WorkflowStep("repair", <<"analyze">>, TRUE, 0),
     WorkflowStep("test", <<"repair">>, FALSE, 0),
     WorkflowStep("comment", <<"test">>, TRUE, 0) >>

\* state right after createWorkflow/addStep/setParallel (or new AiCodeEngine), before the
\* run; p holds the fixed outcomes of the steps when they are pure
RunInitPure(e, w, p) ==
  /\ engine = e
  /\ wf = w
  /\ pc = "ready"
  /\ cur = 0
  /\ status = [i \in 1..Len(w.steps) |-> "pending"]
  /\ attempt = [i \in 1..Len(w.steps) |-> 0]
  /\ invoked = [i \in 1..Len(w.steps) |-> 0]
  /\ results = {}
  /\ errors = {}
  /\ success = FALSE
  /\ autoResults = <<>>
  /\ lastOutcome = [i \in 1..Len(w.steps) |-> "none"]
  /\ pure = p
  /\ previous = NoResult

\* the same with opaque steps
RunInit(e, w) == RunInitPure(e, w, <<>>)

\* The workflows explored vary one declared attribute at a time: the dependency
\* declarations, the optional flags, or the retry counts.
NoFlow ==
  /\ flow = <<>>
  /\ validation = NoResult
  /\ optimized = NoResult
  /\ declared = <<>>
  /\ NoOrch

\* workflows whose steps declare dependencies (all required, no retries)
DeclaredInit ==
  /\ NoFlow
  /\ \E n \in 1..MaxWfSteps, par \in BOOLEAN :
       \E lens \in [1..n -> 0..MaxDeclared] :
         /\ SumTo(lens, n) <= MaxDeclared
         /\ \E targets \in [1..SumTo(lens, n) -> WfIds] :
              RunInit("workflow",
                [steps |-> [i \in 1..n |->
                    WorkflowStep(WfIdAt(i),
                      [j \in 1..lens[i] |-> targets[SumTo(lens, i - 1) + j]], FALSE, 0)],
                 parallel |-> par])

\* workflows whose steps are declared optional or required
OptionalInit ==
  \E n \in 1..MaxWfSteps, par \in BOOLEAN :
    \E opt \in [1..n -> BOOLEAN] :
      RunInit("workflow",
        [steps |-> [i \in 1..n |-> WorkflowStep(WfIdAt(i), <<>>, opt[i], 0)],
         parallel |-> par])

\* workflows whose steps have retries
RetryInit ==
  \E n \in 1..MaxRetrySteps, par \in BOOLEAN :
    \E ret \in [1..n -> 0..MaxRetries] :
      RunInit("workflow",
        [steps |-> [i \in 1..n |-> WorkflowStep(WfIdAt(i), <<>>, FALSE, ret[i])],
         parallel |-> par])

Init ==
  /\ NoFlow
  /\ \/ OptionalInit
     \/ RetryInit
     \/ RunInit("auto", [steps |-> AutoFlowSteps, parallel |-> FALSE])

\* ------------------------------------------------------ WorkflowBuilder
N == Len(wf.steps)

Keys(errs) == {e[1] : e \in errs}

\* errors.set(step.id, err)
SetError(errs, id, err) == {e \in errs : e[1] # id} \cup {<<id, err>>}

\* executeWithTimeout: Promise.race of action() and the timer: the action resolves,
\* the action rejects, or the timer rejects first with Error('Timeout')
AttemptOutcomes == {"ok", "error", "timeout"}

\* const retries = step.retries || 0
Retries(step) == step.retries

\* variant of executeStep that rethrows a timeout at once, whatever retries remain
executeStepTimeoutFatal(step, a, o) ==
  IF o = "ok" THEN "return"
  ELSE IF o = "timeout" \/ a = Retries(step) THEN "throw"
  ELSE "retry"

\* variant of executeStep whose loop gives up one attempt early
executeStepOneShort(step, a, o) ==
  IF o = "ok" THEN "return"
  ELSE IF a + 1 >= Retries(step) THEN "throw"
  ELSE "retry"

\* executeStep, one pass of `for (attempt = 0; attempt <= retries; attempt++)` whose
\* attempt settled with outcome o: "return" the value, "throw" the error, or "retry"
executeStep(step, a, o) ==
  IF o = "ok" THEN "return"
  ELSE IF a = Retries(step) THEN "throw"
  ELSE "retry"

\* executeParallel up to Promise.all: workflow.steps.map runs every callback to its first
\* await, so every condition is evaluated and every action() called before any settles
ExecuteParallel ==
  /\ engine = "workflow"
  /\ pc = "ready"
  /\ wf.parallel
  /\ \E cond \in [1..N -> BOOLEAN] :
       /\ status' = [i \in 1..N |-> IF cond[i] THEN "running" ELSE "skipped"]
       /\ invoked' = [i \in 1..N |-> IF cond[i] THEN 1 ELSE 0]
       /\ IF \A i \in 1..N : ~cond[i]
          THEN pc' = "returned" /\ success' = (errors = {})
          ELSE pc' = "running" /\ success' = success
  /\ UNCHANGED <<flowVars, rerunVars, orchVars, engine, wf, cur, attempt, results, errors, autoResults,
                 lastOutcome>>

\* one attempt of step i settles inside its map callback (executeParallel lines 115-133);
\* execute returns when Promise.all fulfils (all callbacks done) or rejects (onError threw)
ParallelStepSettles(i) ==
  /\ engine = "workflow"
  /\ wf.parallel
  /\ pc \in {"running", "returned"}
  /\ status[i] = "running"
  /\ \E o \in AttemptOutcomes, onSuccessThrows \in BOOLEAN, onErrorThrows \in BOOLEAN :
       LET v == executeStep(wf.steps[i], attempt[i], o)
           id == wf.steps[i].id
       IN /\ lastOutcome' = [lastOutcome EXCEPT ![i] = o]
          /\ IF v = "retry"
             THEN /\ attempt' = [attempt EXCEPT ![i] = @ + 1]
                  /\ invoked' = [invoked EXCEPT ![i] = @ + 1]
                  /\ UNCHANGED <<status, results, errors, pc, success>>
             ELSE LET caught == v = "throw" \/ onSuccessThrows
                      res == IF v = "return" THEN results \cup {id} ELSE results
                      errs == IF caught
                              THEN SetError(errors, id, IF v = "throw" THEN o ELSE "callback")
                              ELSE errors
                      rejected == caught /\ onErrorThrows
                      st == [status EXCEPT ![i] = "done"]
                  IN /\ status' = st
                     /\ results' = res
                     /\ errors' = errs
                     /\ IF pc = "running" /\ (rejected \/ \A j \in 1..N : st[j] # "running")
                        THEN pc' = "returned" /\ success' = (errs = {})
                        ELSE UNCHANGED <<pc, success>>
                     /\ UNCHANGED <<attempt, invoked>>
  /\ UNCHANGED <<flowVars, rerunVars, orchVars, engine, wf, cur, autoResults>>

\* what step i's action() can settle with: any outcome, or the fixed one when it is pure
ActionOutcomes(i) == IF pure = <<>> THEN AttemptOutcomes ELSE {pure[i].action}

\* whether step i's onSuccess can throw
OnSuccessThrows(i) == IF pure = <<>> THEN BOOLEAN ELSE {pure[i].onSuccess = "throw"}

\* whether the conditions can make the loop pass the steps from..(k - 1) and run step k
\* (k = N + 1: pass every remaining step)
ConditionsAllow(from, k) ==
  \/ pure = <<>>
  \/ /\ \A j \in from..(k - 1) : ~pure[j].condition
     /\ k <= N => pure[k].condition

\* the for-loop of executeSequential from index `from` to its next await: steps whose
\* condition is false are passed (continue), the next one has its action called;
\* past the last step the loop ends and execute returns
executeSequentialFrom(from, st, res, errs) ==
  \E k \in {j \in from..(N + 1) : ConditionsAllow(from, j)} :
    LET st1 == [i \in 1..N |-> IF i >= from /\ i < k THEN "skipped" ELSE st[i]]
    IN /\ results' = res
       /\ errors' = errs
       /\ cur' = k
       /\ IF k <= N
          THEN /\ status' = [st1 EXCEPT ![k] = "running"]
               /\ invoked' = [invoked EXCEPT ![k] = @ + 1]
               /\ pc' = "running"
               /\ success' = success
          ELSE /\ status' = st1
               /\ invoked' = invoked
               /\ pc' = "returned"
               /\ success' = (errs = {})

ExecuteSequential ==
  /\ engine = "workflow"
  /\ pc = "ready"
  /\ ~wf.parallel
  /\ executeSequentialFrom(1, status, results, errors)
  /\ UNCHANGED <<flowVars, rerunVars, orchVars, engine, wf, attempt, autoResults, lastOutcome>>

\* variant of loopAfterStep without the break
loopAfterStepNoBreak(caught) == "continue"

\* executeSequential, end of one iteration: the catch block ends with `break`
\* ("Stop on error in sequential execution"), the try block falls through to the next step
loopAfterStep(caught) == IF caught THEN "break" ELSE "continue"

\* one attempt of the current step settles (executeSequential lines 148-169): on success
\* the loop goes on; in the catch block the error is recorded and the loop is left
\* (break, or onError throwing into execute's catch), after which execute returns
SequentialStepSettles ==
  /\ engine = "workflow"
  /\ ~wf.parallel
  /\ pc = "running"
  /\ cur \in 1..N
  /\ status[cur] = "running"
  /\ \E o \in ActionOutcomes(cur), onSuccessThrows \in OnSuccessThrows(cur) :
       LET v == executeStep(wf.steps[cur], attempt[cur], o)
           id == wf.steps[cur].id
           st == [status EXCEPT ![cur] = "done"]
           caught == v = "throw" \/ onSuccessThrows
           res == IF v = "return" THEN results \cup {id} ELSE results
           errs == IF caught
                   THEN SetError(errors, id, IF v = "throw" THEN o ELSE "callback")
                   ELSE errors
       IN /\ lastOutcome' = [lastOutcome EXCEPT ![cur] = o]
          /\ IF v = "retry"
             THEN /\ attempt' = [attempt EXCEPT ![cur] = @ + 1]
                  /\ invoked' = [invoked EXCEPT ![cur] = @ + 1]
                  /\ UNCHANGED <<status, results, errors, pc, success, cur>>
             ELSE IF loopAfterStep(caught) = "continue"
             THEN /\ executeSequentialFrom(cur + 1, st, res, errs)
                  /\ UNCHANGED attempt
             ELSE /\ status' = st
                  /\ results' = res
                  /\ errors' = errs
                  /\ pc' = "returned"
                  /\ success' = (errs = {})
                  /\ UNCHANGED <<attempt, invoked, cur>>
  /\ UNCHANGED <<flowVars, rerunVars, orchVars, engine, wf, autoResults>>

\* ------------------------------------------------ AiCodeEngine.autoProcess
\* const flow = await this.flowBuilder.buildAutoFlow(target); the loop starts
AutoProcess ==
  /\ engine = "auto"
  /\ pc = "ready"
  /\ pc' = "running"
  /\ cur' = 1
  /\ UNCHANGED <<flowVars, rerunVars, orchVars, engine, wf, status, attempt, invoked, results,
                 errors, success, autoResults, lastOutcome>>

\* results.every(r => r.success)
Every(rs) == \A k \in 1..Len(rs) : rs[k].success

\* whether the loop is left after a step's result: if (!result.success && !step.optional) break
autoBreak(step, ok) == ~ok /\ ~step.optional

\* one iteration of `for (const step of flow.steps)`: the step is executed and its
\* AiCodeResult pushed; after a break or the last step autoProcess returns.  The listed
\* executeStep is a stub ("Step execution logic here") that returns success: true; the
\* result is left open here, the stub's value being one of the two, so that the loop's
\* own failure branch is exercised.
AutoExecuteStep ==
  /\ engine = "auto"
  /\ pc = "running"
  /\ cur \in 1..N
  /\ \E ok \in BOOLEAN :
       LET rs == Append(autoResults, [step |-> wf.steps[cur].id, success |-> ok])
       IN /\ autoResults' = rs
          /\ invoked' = [invoked EXCEPT ![cur] = @ + 1]
          /\ status' = [status EXCEPT ![cur] = "done"]
          /\ IF autoBreak(wf.steps[cur], ok) \/ cur = N
             THEN pc' = "returned" /\ success' = Every(rs) /\ cur' = cur
             ELSE pc' = "running" /\ success' = success /\ cur' = cur + 1
  /\ UNCHANGED <<flowVars, rerunVars, orchVars, engine, wf, attempt, results, errors, lastOutcome>>

\* ------------------------------------------- execute called a second time
\* variant of newMap that hands the map of the previous call to the next one
reusedMap(old) == old

\* const results = new Map(); const errors = new Map(): made by every execute call
newMap(old) == {}

\* workflows with pure steps: the condition, the action and onSuccess of each step give
\* the same outcome every time they are called
RerunInit ==
  /\ NoFlow
  /\ \E n \in 1..MaxRetrySteps :
       \E ret \in [1..n -> 0..1],
          p \in [1..n -> [condition : BOOLEAN, action : AttemptOutcomes,
                          onSuccess : {"ok", "throw"}]] :
         RunInitPure("workflow",
           [steps |-> [i \in 1..n |-> WorkflowStep(WfIdAt(i), <<>>, FALSE, ret[i])],
            parallel |-> FALSE],
           p)

\* execute(name) is called again on the same workflow after the first call returned: the
\* first WorkflowResult is with the caller, the new call makes its own maps and runs the
\* loop of executeSequential to its first await
ExecuteAgain ==
  /\ engine = "workflow"
  /\ ~wf.parallel
  /\ pc = "returned"
  /\ previous = NoResult
  /\ previous' = <<[success |-> success, results |-> results, errors |-> errors,
                    status |-> status]>>
  /\ attempt' = [i \in 1..N |-> 0]
  /\ lastOutcome' = [i \in 1..N |-> "none"]
  /\ executeSequentialFrom(1, [i \in 1..N |-> "pending"], newMap(results), newMap(errors))
  /\ UNCHANGED <<flowVars, orchVars, engine, wf, autoResults, pure>>

RerunNext ==
  \/ ExecuteSequential
  \/ SequentialStepSettles
  \/ ExecuteAgain

\* two execute calls in a row on a sequential workflow with pure steps
SpecRerun == RerunInit /\ [][RerunNext]_vars

WorkflowNext ==
  \/ ExecuteParallel
  \/ \E i \in 1..N : ParallelStepSettles(i)
  \/ ExecuteSequential
  \/ SequentialStepSettles

Next ==
  \/ WorkflowNext
  \/ AutoProcess
  \/ AutoExecuteStep

\* runs of WorkflowBuilder.execute and of AiCodeEngine.autoProcess
Spec == Init /\ [][Next]_vars

\* runs of WorkflowBuilder.execute on workflows that declare dependencies
SpecDeclared == DeclaredInit /\ [][WorkflowNext]_vars

\* ------------------------------------------- buildFlow and addStep
\* ids a caller declares; "" stands for a declaration without id
DeclaredIds == {"", "a", "b", "step-1"}

\* `step-${index}`, index counted from 0
DefaultId(index) == <<"step-0", "step-1", "step-2", "step-3", "step-4">>[index + 1]

\* buildFlow: config.steps.map((step, index) => ({ id: step.id || `step-${index}`, ...,
\* optional: step.optional ?? false, dependencies: step.dependencies || [] }))
buildFlow(steps) ==
  [i \in 1..Len(steps) |->
     FlowStep(IF steps[i].id = "" THEN DefaultId(i - 1) ELSE steps[i].id,
              steps[i].dependencies)]

\* addStep: workflow.steps.push(step)
addStep(workflow, step) == [workflow EXCEPT !.steps = Append(@, step)]

\* a FlowBuilder and a WorkflowBuilder with one empty workflow (createWorkflow), and the
\* declarations a caller is about to build from
BuildInit ==
  /\ flow = <<>>
  /\ validation = NoResult
  /\ optimized = NoResult
  /\ \E n \in 0..MaxSteps :
       \E ids \in [1..n -> DeclaredIds] :
         declared = [i \in 1..n |-> [id |-> ids[i], dependencies |-> <<>>]]
  /\ RunInit("build", [steps |-> <<>>, parallel |-> FALSE])
  /\ NoOrch

\* buildFlow({ name, description, steps: declared })
BuildFlow ==
  /\ engine = "build"
  /\ flow = <<>>
  /\ declared # <<>>
  /\ flow' = buildFlow(declared)
  /\ UNCHANGED <<validation, optimized, declared, runVars, rerunVars, orchVars>>

\* addStep(name, step) for the next declaration
AddStep ==
  /\ engine = "build"
  /\ Len(wf.steps) < Len(declared)
  /\ LET d == declared[Len(wf.steps) + 1]
     IN wf' = addStep(wf, WorkflowStep(d.id, d.dependencies, FALSE, 0))
  /\ UNCHANGED <<flowVars, rerunVars, orchVars, engine, pc, cur, status, attempt, invoked, results,
                 errors, success, autoResults, lastOutcome>>

BuildNext == BuildFlow \/ AddStep

\* graphs built from declarations
SpecBuild == BuildInit /\ [][BuildNext]_vars

\* ------------------------------------------- addStep while execute is in progress
\* the id of the step that is added late
LateId == "late"

\* a workflow about to be executed, and one more step its owner will add
AddStepInit ==
  /\ flow = <<>>
  /\ validation = NoResult
  /\ optimized = NoResult
  /\ declared = <<[id |-> LateId, dependencies |-> <<>>]>>
  /\ NoOrch
  /\ \E n \in 1..MaxRetrySteps, par \in BOOLEAN :
       RunInit("workflow",
         [steps |-> [i \in 1..n |-> WorkflowStep(WfIdAt(i), <<>>, FALSE, 0)],
          parallel |-> par])

\* addStep(name, step) called while execute(name) is awaiting a step: the step is pushed
\* onto the array execute is working on.  executeParallel has finished its map() by then
\* (map does not visit later elements); the for-of loop of executeSequential reads the
\* array's length again at every iteration.
AddStepWhileExecuting ==
  /\ engine = "workflow"
  /\ pc = "running"
  /\ declared # <<>>
  /\ LET d == declared[1]
     IN wf' = addStep(wf, WorkflowStep(d.id, d.dependencies, FALSE, 0))
  /\ declared' = Tail(declared)
  /\ status' = Append(status, "pending")
  /\ attempt' = Append(attempt, 0)
  /\ invoked' = Append(invoked, 0)
  /\ lastOutcome' = Append(lastOutcome, "none")
  /\ UNCHANGED <<flow, validation, optimized, rerunVars, orchVars, engine, pc, cur, results,
                 errors, success, autoResults>>

AddStepNext == WorkflowNext \/ AddStepWhileExecuting

\* runs of WorkflowBuilder.execute during which a step is added
SpecAddStep == AddStepInit /\ [][AddStepNext]_vars


\* ------------------------------------------------ AiCodeOrchestrator
\* at most MaxWatchCalls calls of watch() are made on one orchestrator
MaxWatchCalls == 2

\* OrchestratorConfig['mode']
Modes == {"full", "development", "ci", "deployment"}

\* the CLI casts process.argv[2] to the mode type unchecked; the tests and documents
\* of the orchestrator also pass 'components'
CliModes == Modes \cup {"components"}

\* The body of each mode's function is the sequence of its `await this.run...()` calls,
\* each named by the key its result is stored under in runFullAutomation:
\*   runAutoSync 'sync', runAutoConfig 'config', runAnalysis 'analysis',
\*   runAutoRepair 'repair', runAutoFix 'fix', runAutoTest 'test',
\*   runAutoComments 'comments', runAutoDeploy 'deploy'

\* variant of runFullAutomation that deploys whether or not a platform is configured
runFullAutomationAlwaysDeploy(cfg) ==
  <<"sync", "config", "analysis", "repair", "fix", "test", "comments", "deploy">>

\* runFullAutomation: phases 1 to 7, then deploy if (this.config.deployPlatform)
runFullAutomation(cfg) ==
  <<"sync", "config", "analysis", "repair", "fix", "test", "comments">>
    \o (IF cfg.deployPlatform THEN <<"deploy">> ELSE <<>>)

runDevelopmentMode == <<"sync", "analysis", "repair", "test", "comments">>

runCIMode == <<"analysis", "repair", "test">>

runDeploymentMode == <<"test", "deploy">>

\* switch (this.config.mode): a mode with no case runs nothing
switchMode(cfg) ==
  CASE cfg.mode = "full" -> runFullAutomation(cfg)
    [] cfg.mode = "development" -> runDevelopmentMode
    [] cfg.mode = "ci" -> runCIMode
    [] cfg.mode = "deployment" -> runDeploymentMode
    [] OTHER -> <<>>

\* whether the mode's function stores the step's result: result.phases.set(key, ...);
\* runDevelopmentMode drops every result
setsPhase(mode) == mode # "development"

\* variant of throwsAfter without the check of runCIMode
throwsAfterNoCI(mode, step, o) ==
  mode = "deployment" /\ step = "test" /\ o = "fail"

\* variant of throwsAfter without the check of runDeploymentMode
throwsAfterNoDeployment(mode, step, o) ==
  mode = "ci" /\ step = "test" /\ o = "fail"

\* if (!testResult.success) throw new Error(...): in runCIMode and runDeploymentMode only
throwsAfter(mode, step, o) ==
  /\ mode \in {"ci", "deployment"}
  /\ step = "test"
  /\ o = "fail"

\* what an awaited run...() call can settle with: a result with success true ("ok"),
\* a result with success false ("fail"), or a rejection ("throw");
\* runAutoConfig returns { success: true } whenever configure() resolves
StepResults(step) ==
  IF step = "config" THEN {"ok", "throw"} ELSE {"ok", "fail", "throw"}

\* no orchestrate() call made yet by this caller
NoOrchestrate ==
  [pc |-> "idle", called |-> <<>>, outcomes |-> <<>>, phases |-> {}, success |-> FALSE]

\* orchestrate() up to its first await: the result object is created and the first
\* run...() of the mode is called; with no matching case orchestrate returns at once
orchestrate(cfg) ==
  LET list == switchMode(cfg)
      result == [pc |-> "running", called |-> <<>>, outcomes |-> <<>>, phases |-> {},
                 success |-> TRUE]
  IN IF list = <<>>
     THEN [result EXCEPT !.pc = "returned", !.success = TRUE]
     ELSE [result EXCEPT !.called = <<list[1]>>]

\* the run r resumes after its awaited step settled with o: the result is stored, then
\* either the mode's function throws into orchestrate's catch (success = false), or it
\* calls its next run...(), or it ends and orchestrate sets success = true and returns
resume(cfg, r, o) ==
  LET list == switchMode(cfg)
      k == Len(r.called)
      step == list[k]
      r1 == [r EXCEPT !.outcomes = Append(@, o),
                      !.phases = IF o # "throw" /\ setsPhase(cfg.mode)
                                 THEN SetError(@, step, o) ELSE @]
  IN IF o = "throw" \/ throwsAfter(cfg.mode, step, o)
     THEN [r1 EXCEPT !.pc = "returned", !.success = FALSE]
     ELSE IF k = Len(list)
     THEN [r1 EXCEPT !.pc = "returned", !.success = TRUE]
     ELSE [r1 EXCEPT !.called = Append(@, list[k + 1])]

\* state after new AiCodeOrchestrator(cfg), on which up to n calls of orchestrate() or
\* watch() will be made; cfg.database is the documented components.database.enabled
OrchInit(cfg, n) ==
  /\ flow = <<>>
  /\ validation = NoResult
  /\ optimized = NoResult
  /\ declared = <<>>
  /\ RunInit("orchestrator", [steps |-> <<>>, parallel |-> FALSE])
  /\ config = cfg
  /\ running = FALSE
  /\ loop = [c \in 1..n |-> "none"]
  /\ run = [c \in 1..n |-> NoOrchestrate]
  /\ exitCode = NoResult

\* CLI entry point without --watch, any mode and flags
CliInit ==
  \E cfg \in [mode : CliModes, deployPlatform : BOOLEAN, database : BOOLEAN,
              watch : {FALSE}] :
    OrchInit(cfg, 1)

\* the modes watch() is explored with
WatchModes == {"ci", "deployment", "components"}

WatchInit ==
  \E cfg \in [mode : WatchModes, deployPlatform : {FALSE}, database : {FALSE},
              watch : {TRUE}] :
    OrchInit(cfg, MaxWatchCalls)

\* CLI: orchestrator.orchestrate() is called
CliOrchestrate ==
  /\ engine = "orchestrator"
  /\ ~config.watch
  /\ run[1].pc = "idle"
  /\ run' = [run EXCEPT ![1] = orchestrate(config)]
  /\ UNCHANGED <<flowVars, rerunVars, runVars, config, running, loop, exitCode>>

\* the step awaited by caller c's run settles and the run resumes; when the run returns
\* inside a watch loop, the loop goes on to await its timer
StepSettles(c) ==
  /\ engine = "orchestrator"
  /\ exitCode = NoResult
  /\ run[c].pc = "running"
  /\ \E o \in StepResults(run[c].called[Len(run[c].called)]) :
       LET r == resume(config, run[c], o)
       IN /\ run' = [run EXCEPT ![c] = r]
          /\ loop' = IF r.pc = "returned" /\ loop[c] = "cycle"
                     THEN [loop EXCEPT ![c] = "sleep"]
                     ELSE loop
  /\ UNCHANGED <<flowVars, rerunVars, runVars, config, running, exitCode>>

\* CLI: .then(result => process.exit(result.success ? 0 : 1)); orchestrate catches every
\* error of the run, so the .catch branch is not taken
CliExit ==
  /\ engine = "orchestrator"
  /\ ~config.watch
  /\ run[1].pc = "returned"
  /\ exitCode = NoResult
  /\ exitCode' = <<IF run[1].success THEN 0 ELSE 1>>
  /\ UNCHANGED <<flowVars, rerunVars, runVars, config, running, loop, run>>

\* variant of whileRunning that never leaves the loop
whileRunningForever(flag) == TRUE

\* while (this.running)
whileRunning(flag) == flag

\* the loop of call c passes `while (this.running)` and calls orchestrate()
watchCycle(c) ==
  LET r == orchestrate(config)
  IN /\ run' = [run EXCEPT ![c] = r]
     /\ loop' = [loop EXCEPT ![c] = IF r.pc = "returned" THEN "sleep" ELSE "cycle"]

\* the c-th call of watch(): returns at once if this.running, else sets it and enters
\* the loop up to `await this.orchestrate()`
Watch(c) ==
  /\ engine = "orchestrator"
  /\ config.watch
  /\ loop[c] = "none"
  /\ \A d \in 1..(c - 1) : loop[d] # "none"
  /\ IF running
     THEN /\ loop' = [loop EXCEPT ![c] = "returned"]
          /\ UNCHANGED <<running, run>>
     ELSE /\ running' = TRUE
          /\ watchCycle(c)
  /\ UNCHANGED <<flowVars, rerunVars, runVars, config, exitCode>>

\* stop()
Stop ==
  /\ engine = "orchestrator"
  /\ config.watch
  /\ running' = FALSE
  /\ UNCHANGED <<flowVars, rerunVars, runVars, config, loop, run, exitCode>>

\* variant of timerArmed whose timer also runs while orchestrate() is awaited
timerArmedDuringCycle(l) == l \in {"cycle", "sleep"}

\* await new Promise(resolve => setTimeout(resolve, interval)) comes after the try/catch
\* around `await this.orchestrate()`: the timer exists only once the cycle has settled
timerArmed(l) == l = "sleep"

\* the setTimeout of loop c fires: the loop condition is evaluated again
TimerFires(c) ==
  /\ engine = "orchestrator"
  /\ timerArmed(loop[c])
  /\ IF whileRunning(running)
     THEN watchCycle(c)
     ELSE /\ loop' = [loop EXCEPT ![c] = "returned"]
          /\ UNCHANGED run
  /\ UNCHANGED <<flowVars, rerunVars, runVars, config, running, exitCode>>

CliNext ==
  \/ CliOrchestrate
  \/ StepSettles(1)
  \/ CliExit

WatchNext ==
  \/ \E c \in 1..MaxWatchCalls : Watch(c)
  \/ Stop
  \/ \E c \in 1..MaxWatchCalls : StepSettles(c)
  \/ \E c \in 1..MaxWatchCalls : TimerFires(c)

\* one run of the CLI entry point without --watch
SpecOrch == CliInit /\ [][CliNext]_vars

\* watch() and stop() calls on one orchestrator
SpecWatch == WatchInit /\ [][WatchNext]_vars

\* the same, where every awaited step settles and every timer fires
SpecWatchFair ==
  /\ SpecWatch
  /\ \A c \in 1..MaxWatchCalls : WF_vars(StepSettles(c)) /\ WF_vars(TimerFires(c))

\* ---------------------------------------------- graph notions of the claims
\* (stated on the declared ids and dependency entries, independently of the traversals)
StepIds(steps) == {steps[i].id : i \in 1..Len(steps)}

UniqueIds(steps) ==
  \A i, j \in 1..Len(steps) : steps[i].id = steps[j].id => i = j

\* the (step id, missing dependency id) pairs of a flow
MissingPairs(steps) ==
  {p \in UNION {{<<steps[i].id, d>> : d \in Range(steps[i].dependencies)} : i \in 1..Len(steps)} :
     p[2] \notin StepIds(steps)}

\* dependency edges: s -> d when a step with id s lists d
Edges(steps) ==
  UNION {{<<steps[i].id, d>> : d \in Range(steps[i].dependencies)} : i \in 1..Len(steps)}

Nodes(steps) == StepIds(steps) \cup {p[2] : p \in Edges(steps)}

RECURSIVE Closure(_, _)
Closure(R, n) ==
  IF n = 0 THEN R
  ELSE LET P == Closure(R, n - 1)
       IN P \cup {<<x[1][1], x[2][2]>> : x \in {y \in P \X R : y[1][2] = y[2][1]}}

Reaches(steps) == Closure(Edges(steps), Cardinality(Nodes(steps)))

HasCycle(steps) == \E x \in Nodes(steps) : <<x, x>> \in Reaches(steps)

ValidFlow(steps) ==
  /\ UniqueIds(steps)
  /\ MissingPairs(steps) = {}
  /\ ~HasCycle(steps)

\* --------------------------------------------------------------- claims
\* C2: for every valid flow (unique ids, acyclic, every dependency present) the order
\* returned by optimizeFlow is a permutation of the flow's steps in which every step
\* comes after all the steps it depends on.
C2_TopologicalOrder ==
  (optimized # NoResult /\ ValidFlow(flow)) =>
    LET sorted == optimized[1]
    IN /\ Len(sorted) = Len(flow)
       /\ Range(sorted) = Range(flow)
       /\ \A p \in 1..Len(sorted) :
            \A d \in Range(sorted[p].dependencies) :
              \E q \in 1..(p - 1) : sorted[q].id = d

\* a valid three-step flow declared dependents-first, which optimizeFlow had to reorder
C2_Witness ==
  /\ optimized # NoResult
  /\ ValidFlow(flow)
  /\ Len(flow) = 3
  /\ flow[1].dependencies # <<>>
  /\ flow[2].dependencies # <<>>
  /\ optimized[1] # flow

\* C3 (as claimed): every flow whose dependency edges contain a cycle is reported
\* invalid with at least one circular-dependency error.
C3_CycleReported ==
  (validation # NoResult /\ HasCycle(flow)) =>
    /\ ~validation[1].valid
    /\ \E e \in Range(validation[1].errors) : e.kind = "circular"

\* C3 restricted to flows with unique step ids
C3_CycleReportedUnique ==
  (validation # NoResult /\ HasCycle(flow) /\ UniqueIds(flow)) =>
    /\ ~validation[1].valid
    /\ \E e \in Range(validation[1].errors) : e.kind = "circular"

Parallel == engine = "workflow" /\ wf.parallel

Sequential == engine = "auto" \/ (engine = "workflow" /\ ~wf.parallel)

Returned == pc = "returned"

Required(i) == ~wf.steps[i].optional

\* the step is recorded as failed / as succeeded in the result
Failed(i) ==
  IF engine = "auto"
  THEN \E k \in 1..Len(autoResults) :
         autoResults[k].step = wf.steps[i].id /\ ~autoResults[k].success
  ELSE wf.steps[i].id \in Keys(errors)

Succeeded(i) ==
  IF engine = "auto"
  THEN \E k \in 1..Len(autoResults) :
         autoResults[k].step = wf.steps[i].id /\ autoResults[k].success
  ELSE wf.steps[i].id \in results

\* step j declares step i as a dependency, directly or through other steps
DependsOn(j, i) == <<wf.steps[j].id, wf.steps[i].id>> \in Reaches(wf.steps)

\* C1 (as claimed): under the parallel policy no step's action is started before every
\* step it declares as a dependency has completed.
C1_DependenciesCompleteBeforeStart ==
  (Parallel /\ ValidFlow(wf.steps)) =>
    \A i, j \in 1..N :
      (invoked[i] > 0 /\ wf.steps[j].id \in Range(wf.steps[i].dependencies)) =>
        status[j] \in {"done", "skipped"}

\* C4 (as claimed): no step action is ever invoked for a workflow whose graph is invalid
\* (a cycle, a missing dependency or a duplicate id).
C4_InvalidGraphNeverRuns ==
  (engine = "workflow" /\ ~ValidFlow(wf.steps)) =>
    \A i \in 1..N : invoked[i] = 0

\* C6: a step with retries = N has its action invoked once per attempt, at most N+1 times;
\* a step that ends without a result was invoked exactly N+1 times; a step whose k-th
\* attempt succeeded was invoked exactly k times, is recorded in results, and is never
\* invoked again.
C6_RetryBound ==
  /\ [](engine = "workflow" =>
         \A i \in 1..N :
           /\ invoked[i] <= wf.steps[i].retries + 1
           /\ status[i] \in {"pending", "skipped"} => invoked[i] = 0
           /\ status[i] = "running" => invoked[i] = attempt[i] + 1
           /\ status[i] = "done" =>
                IF wf.steps[i].id \in results
                THEN invoked[i] = attempt[i] + 1
                ELSE /\ wf.steps[i].id \in Keys(errors)
                     /\ attempt[i] = wf.steps[i].retries
                     /\ invoked[i] = wf.steps[i].retries + 1)
  /\ [][engine = "workflow" =>
         \A i \in 1..N : status[i] = "done" =>
           (invoked'[i] = invoked[i] /\ attempt'[i] = attempt[i])]_vars

\* retries = 2, two failed attempts, the third succeeds: 3 invocations, recorded in results
C6_Witness ==
  /\ engine = "workflow"
  /\ \E i \in 1..N :
       /\ wf.steps[i].retries = 2
       /\ status[i] = "done"
       /\ attempt[i] = 2
       /\ invoked[i] = 3
       /\ wf.steps[i].id \in results
  /\ \E i \in 1..N :
       /\ wf.steps[i].retries = 1
       /\ status[i] = "done"
       /\ invoked[i] = 2
       /\ wf.steps[i].id \in Keys(errors)

\* C7: under the sequential policy, once a required step has failed the run has returned
\* with success = false and no later step was invoked or is recorded in the result.
C7_SequentialHalt ==
  Sequential =>
    \A i \in 1..N :
      (Required(i) /\ Failed(i)) =>
        /\ Returned
        /\ ~success
        /\ \A j \in (i + 1)..N :
             invoked[j] = 0 /\ status[j] = "pending" /\ ~Failed(j) /\ ~Succeeded(j)

\* a required first step fails after exhausting two retries; the step after it is skipped
C7_Witness ==
  /\ engine = "workflow"
  /\ ~wf.parallel
  /\ N = 2
  /\ Required(1)
  /\ wf.steps[1].retries = 2
  /\ invoked[1] = 3
  /\ Failed(1)
  /\ Returned
  /\ ~success
  /\ status[2] = "pending"
  /\ invoked[2] = 0

\* C8 (as claimed): the returned success flag is true exactly when no required step
\* ended failed.
C8_SuccessIffNoRequiredFailed ==
  Returned => (success <=> \A i \in 1..N : Failed(i) => ~Required(i))

\* C9 (as claimed): under the sequential policy every step after a failed optional step is
\* still attempted, unless a required step fails.
C9_OptionalFailureDoesNotHalt ==
  (Sequential /\ Returned /\ \A i \in 1..N : Failed(i) => ~Required(i)) =>
    \A i \in 1..N :
      Failed(i) => \A j \in (i + 1)..N : status[j] # "pending"

\* C10 (as claimed): under the parallel policy, when a required step has failed no step
\* that transitively depends on it is ever invoked.
C10_DependentsOfFailedNotInvoked ==
  (Parallel /\ ValidFlow(wf.steps)) =>
    \A i, j \in 1..N :
      (Required(i) /\ Failed(i) /\ DependsOn(j, i)) => invoked[j] = 0

\* ---------------------------------------- orchestrator notions of the claims
\* the step lists the modes are specified with, under the names of the phase keys
\* (configure = 'config', analyze = 'analysis', comment = 'comments')
SpecifiedSteps(cfg) ==
  CASE cfg.mode = "full" ->
         IF cfg.deployPlatform
         THEN <<"sync", "config", "analysis", "repair", "fix", "test", "comments", "deploy">>
         ELSE <<"sync", "config", "analysis", "repair", "fix", "test", "comments">>
    [] cfg.mode = "development" -> <<"sync", "analysis", "repair", "test", "comments">>
    [] cfg.mode = "ci" -> <<"analysis", "repair", "test">>
    [] cfg.mode = "deployment" -> <<"test", "deploy">>
    [] cfg.mode = "components" ->
         IF cfg.database
         THEN <<"component-config", "component-sync", "database-sync">>
         ELSE <<"component-config", "component-sync">>

Callers == 1..Len(run)

\* the step was invoked in run r / has settled in run r with outcome o
Invoked(r, step) == \E k \in 1..Len(r.called) : r.called[k] = step

Settled(r, step, o) ==
  \E k \in 1..Len(r.outcomes) : r.called[k] = step /\ r.outcomes[k] = o

NoThrow(r) == \A k \in 1..Len(r.outcomes) : r.outcomes[k] # "throw"

AnyFailed(r) == \E k \in 1..Len(r.outcomes) : r.outcomes[k] \in {"fail", "throw"}

IsPrefix(p, q) == Len(p) <= Len(q) /\ \A k \in 1..Len(p) : p[k] = q[k]

\* C11: in ci mode, once the test step has returned success = false the run has returned
\* with success = false and test is the last step that was invoked.
C11_CITestFailureIsFatal ==
  \A c \in Callers :
    (config.mode = "ci" /\ Settled(run[c], "test", "fail")) =>
      /\ run[c].pc = "returned"
      /\ ~run[c].success
      /\ run[c].called[Len(run[c].called)] = "test"

\* a ci run whose analysis and repair succeeded and whose test returned success = false
C11_Witness ==
  /\ config.mode = "ci"
  /\ run[1].called = <<"analysis", "repair", "test">>
  /\ run[1].outcomes = <<"ok", "ok", "fail">>
  /\ run[1].pc = "returned"
  /\ ~run[1].success

\* C12: in deployment mode deploy is invoked only after test of the same run has settled
\* with success = true; once test has failed (success = false, or a rejection) the run
\* has returned with success = false and deploy was not invoked.
C12_DeployOnlyAfterTestPassed ==
  \A c \in Callers :
    config.mode = "deployment" =>
      /\ Invoked(run[c], "deploy") =>
           (run[c].called[1] = "test" /\ Settled(run[c], "test", "ok"))
      /\ (Settled(run[c], "test", "fail") \/ Settled(run[c], "test", "throw")) =>
           /\ ~Invoked(run[c], "deploy")
           /\ run[c].pc = "returned"
           /\ ~run[c].success

\* a deployment run whose test returned success = false: returned, deploy never invoked
C12_Witness ==
  /\ config.mode = "deployment"
  /\ run[1].called = <<"test">>
  /\ run[1].outcomes = <<"fail">>
  /\ run[1].pc = "returned"
  /\ ~run[1].success

\* C13 (as claimed): when no step throws, a returned run of one of the four modes has
\* invoked exactly the mode's specified step list, in order, each step once.
C13_FixedStepList ==
  \A c \in Callers :
    (config.mode \in Modes /\ run[c].pc = "returned" /\ NoThrow(run[c])) =>
      run[c].called = SpecifiedSteps(config)

\* C13 (amended): every run invokes a prefix of its mode's specified list, and a returned
\* run in which no step threw has invoked the whole list, except in deployment mode when
\* test returned success = false, where it has invoked test only.
C13_FixedStepListUnlessTestGate ==
  \A c \in Callers :
    config.mode \in Modes =>
      /\ IsPrefix(run[c].called, SpecifiedSteps(config))
      /\ (run[c].pc = "returned" /\ NoThrow(run[c])) =>
           run[c].called = IF config.mode = "deployment" /\ Settled(run[c], "test", "fail")
                           THEN <<"test">>
                           ELSE SpecifiedSteps(config)

\* a returned full run with a deploy platform, a failed step and no throw: eight steps
C13_Witness ==
  /\ config.mode = "full"
  /\ config.deployPlatform
  /\ run[1].pc = "returned"
  /\ NoThrow(run[1])
  /\ Settled(run[1], "repair", "fail")
  /\ Len(run[1].called) = 8
  /\ run[1].called[8] = "deploy"

\* C14 (as claimed): a returned run in components mode has invoked component
\* configuration, then component synchronization, then database sync exactly when the
\* database is enabled.
C14_ComponentsStepList ==
  \A c \in Callers :
    (config.mode = "components" /\ run[c].pc = "returned" /\ NoThrow(run[c])) =>
      run[c].called = SpecifiedSteps(config)

\* C15 (as claimed): in full and development modes a failing step (success = false or a
\* rejection) does not abort the run: a returned run has invoked every step of the list.
C15_BestEffortRunsEveryStep ==
  \A c \in Callers :
    (config.mode \in {"full", "development"} /\ run[c].pc = "returned") =>
      run[c].called = SpecifiedSteps(config)

\* C16 (as claimed): at most one watch loop is active and at most one orchestration run
\* started by watch mode is in progress at any time.
C16_SingleWatchLoop ==
  /\ Cardinality({c \in Callers : loop[c] \in {"cycle", "sleep"}}) <= 1
  /\ Cardinality({c \in Callers : run[c].pc = "running"}) <= 1

\* C17: while this.running is false and stays false (stop() was called and watch() does
\* not set it again) no loop starts an orchestration cycle, and from then on every active
\* loop returns unless watch() sets the flag again.
C17_StopEndsWatch ==
  /\ [][(~running /\ ~running') =>
          \A c \in Callers :
            /\ loop'[c] = "cycle" => loop[c] = "cycle"
            /\ run'[c].pc = "running" => run[c] = run'[c] \/ run[c].pc = "running"]_vars
  /\ \A c \in 1..MaxWatchCalls :
       (~running /\ loop[c] \in {"cycle", "sleep"}) ~> (running \/ loop[c] = "returned")

\* a loop that ran a cycle of three steps, was stopped, and has returned
C17_Witness ==
  /\ ~running
  /\ loop[1] = "returned"
  /\ run[1].pc = "returned"
  /\ Len(run[1].called) = 3

\* C19 (as claimed): the exit code of a non-watch CLI run is 1 whenever some executed step
\* failed (success = false or a rejection) and 0 otherwise, and the aggregate success of
\* a returned run is false whenever some executed step failed.
C19_ExitCodeMirrorsFailures ==
  /\ run[1].pc = "returned" => (AnyFailed(run[1]) => ~run[1].success)
  /\ exitCode # NoResult => exitCode[1] = (IF AnyFailed(run[1]) THEN 1 ELSE 0)

\* C20 (as claimed): when orchestrate has returned, result.phases holds exactly one
\* entry, step name -> outcome, for every step executed in the run.
C20_ReportCoversExecutedSteps ==
  \A c \in Callers :
    run[c].pc = "returned" =>
      run[c].phases = {<<run[c].called[k], run[c].outcomes[k]>> : k \in 1..Len(run[c].outcomes)}

\* C18 (as claimed): a graph in which two steps have the same id is never built: buildFlow
\* (ids defaulted to step-<index> included) and addStep reject the second step.
C18_DuplicateIdsRejected ==
  /\ UniqueIds(flow)
  /\ UniqueIds(wf.steps)

C25_NoOrderForCyclicFlow ==
  HasCycle(flow) => optimized = NoResult

\* the steps with index in `layer`, in declaration order
RECURSIVE LayerSteps(_, _, _)
LayerSteps(steps, layer, i) ==
  IF i > Len(steps) THEN <<>>
  ELSE (IF i \in layer THEN <<steps[i]>> ELSE <<>>) \o LayerSteps(steps, layer, i + 1)

\* the Kahn-style layered order: the steps all of whose dependencies are among the steps
\* already peeled form the next layer
RECURSIVE KahnOrder(_, _)
KahnOrder(steps, peeled) ==
  LET ready == {i \in (1..Len(steps)) \ peeled :
                  \A d \in Range(steps[i].dependencies) : \E j \in peeled : steps[j].id = d}
  IN IF ready = {} THEN <<>>
     ELSE LayerSteps(steps, ready, 1) \o KahnOrder(steps, peeled \cup ready)

\* C26 (as claimed): for every valid flow the order returned by optimizeFlow is the
\* concatenation of the successive ready layers, each in declaration order.
C26_KahnLayeredOrder ==
  (optimized # NoResult /\ ValidFlow(flow)) => optimized[1] = KahnOrder(flow, {})

\* C27 (as claimed): the path of every circular-dependency error is a full cycle and
\* nothing else: it starts and ends with the same step id and every consecutive pair of
\* ids is a declared dependency edge.
C27_ErrorNamesFullCycle ==
  validation # NoResult =>
    \A e \in Range(validation[1].errors) :
      e.kind = "circular" =>
        /\ e.path[1] = e.path[Len(e.path)]
        /\ \A k \in 1..(Len(e.path) - 1) : <<e.path[k], e.path[k + 1]>> \in Edges(flow)

\* C27 (amended): the path of every circular-dependency error is the traversal path closed
\* by the revisited step: every consecutive pair of ids is a declared dependency edge, no
\* id before the last is repeated, and the last id occurs earlier in the path, so that
\* the path ends with a full cycle, preceded by the way from the step the traversal
\* started from when that step is not on the cycle.
C27_ErrorPathEndsWithFullCycle ==
  validation # NoResult =>
    \A e \in Range(validation[1].errors) :
      e.kind = "circular" =>
        /\ Len(e.path) >= 2
        /\ e.path[1] \in StepIds(flow)
        /\ \A k \in 1..(Len(e.path) - 1) : <<e.path[k], e.path[k + 1]>> \in Edges(flow)
        /\ \A j, k \in 1..(Len(e.path) - 1) : e.path[j] = e.path[k] => j = k
        /\ \E k \in 1..(Len(e.path) - 1) : e.path[k] = e.path[Len(e.path)]

\* a cycle of two steps reached from a third: the error path is start -> x -> y -> x
C27_Witness ==
  /\ validation # NoResult
  /\ \E e \in Range(validation[1].errors) :
       /\ e.kind = "circular"
       /\ Len(e.path) = 4
       /\ e.path[2] = e.path[4]
       /\ e.path[1] # e.path[4]
       /\ e.path[3] # e.path[4]

\* ------------------------------------- further claims on WorkflowBuilder.execute
\* C29 (as claimed): once execute has returned under the parallel policy, every launched
\* step has settled: no step of the run is still being attempted (also when an onSuccess
\* or onError callback threw), so the returned maps are not modified any more.
C29_ParallelReturnsAfterAllSettled ==
  (Parallel /\ Returned) =>
    \A i \in 1..N :
      /\ status[i] # "running"
      /\ status[i] = "done" => (Succeeded(i) \/ Failed(i))

\* C30 (as claimed): in a result returned by execute on a workflow with unique step ids,
\* under either policy, no step id is a key of both results and errors, and success is
\* true only if every recorded step is in results.
C30_ResultsErrorsDisjoint ==
  (engine = "workflow" /\ Returned /\ UniqueIds(wf.steps)) =>
    /\ results \cap Keys(errors) = {}
    /\ success => Keys(errors) = {}

\* C21: a second execute call under the sequential policy on the same workflow of pure
\* steps starts from empty maps (every recorded id belongs to a step this call has
\* completed) and returns the result of the first call again: the same success flag, the
\* same results and errors, the same per-step statuses.
C21_RerunIdempotent ==
  previous # NoResult =>
    /\ \A id \in results \cup Keys(errors) :
         \E i \in 1..N : wf.steps[i].id = id /\ status[i] = "done"
    /\ Returned =>
         /\ success = previous[1].success
         /\ results = previous[1].results
         /\ errors = previous[1].errors
         /\ status = previous[1].status

\* both calls returned success = true, with one step run and one passed by its condition
C21_Witness ==
  /\ previous # NoResult
  /\ Returned
  /\ previous[1].success
  /\ success
  /\ N = 2
  /\ status = <<"done", "skipped">>
  /\ results = {"a"}
  /\ invoked[1] = 2

\* C22 (as claimed): a step added to the workflow while execute is in progress is not run
\* by that execution and does not appear in its result, under either policy.
C22_AddedStepNotRun ==
  engine = "workflow" =>
    \A i \in 1..N :
      wf.steps[i].id = LateId =>
        /\ invoked[i] = 0
        /\ ~Succeeded(i)
        /\ ~Failed(i)

\* C24: an attempt that the timeout timer ends is handled exactly like one that the action
\* ends with an error: when retries remain the step is attempted again (one more
\* invocation, nothing recorded), and when it was the last allowed attempt the step is
\* recorded in errors, not in results.
C24_TimeoutCountsAsFailedAttempt ==
  [][engine = "workflow" =>
       \A i \in 1..N :
         ( /\ status[i] = "running"
           /\ attempt'[i] # attempt[i] \/ status'[i] = "done"
           /\ lastOutcome'[i] \in {"timeout", "error"} ) =>
           IF attempt[i] < wf.steps[i].retries
           THEN /\ attempt'[i] = attempt[i] + 1
                /\ invoked'[i] = invoked[i] + 1
                /\ status'[i] = "running"
                /\ wf.steps[i].id \notin Keys(errors') \cup results'
           ELSE /\ status'[i] = "done"
                /\ invoked'[i] = invoked[i]
                /\ <<wf.steps[i].id, lastOutcome'[i]>> \in errors'
                /\ wf.steps[i].id \notin results']_vars

\* one step is being retried after a timeout, another failed by a timeout on its last
\* allowed attempt
C24_Witness ==
  /\ engine = "workflow"
  /\ \E i \in 1..N :
       /\ wf.steps[i].retries = 2
       /\ status[i] = "running"
       /\ attempt[i] = 1
       /\ lastOutcome[i] = "timeout"
  /\ \E j \in 1..N :
       /\ wf.steps[j].retries = 1
       /\ status[j] = "done"
       /\ invoked[j] = 2
       /\ <<wf.steps[j].id, "timeout">> \in errors

\* ------------------------------------- further claims on AiCodeOrchestrator.watch
\* the loop of caller c makes a new orchestrate() call in this step
CycleStarts(c) ==
  /\ run'[c] = orchestrate(config)
  /\ run'[c] # run[c] \/ loop'[c] # loop[c]

\* C28: within one watch() loop cycles never overlap: the loop calls orchestrate() only
\* when its previous orchestrate() call has returned and the loop was in its interval
\* wait (or has just been entered); a cycle that returns, also with success = false, is
\* followed by the interval wait; and the loop ends only from the interval wait once
\* running is false.
C28_CyclesNeverOverlap ==
  [][\A c \in Callers :
       /\ CycleStarts(c) =>
            /\ run[c].pc \in {"idle", "returned"}
            /\ loop[c] \in {"none", "sleep"}
       /\ (loop[c] = "cycle" /\ run'[c].pc = "returned") => loop'[c] = "sleep"
       /\ (loop[c] \in {"cycle", "sleep"} /\ loop'[c] = "returned") =>
            /\ loop[c] = "sleep"
            /\ ~running]_vars

\* a cycle of the first loop has failed after two of its steps, and the loop, still
\* running, is in the interval wait that precedes its next cycle
C28_Witness ==
  /\ running
  /\ loop[1] = "sleep"
  /\ run[1].pc = "returned"
  /\ ~run[1].success
  /\ Len(run[1].called) >= 2

====
